---- MODULE Spec2Model ----
(***************************************************************************)
(* The four QHYCCD demo programs of testapp/cmake_demo, each a single      *)
(* main():                                                                  *)
(*   base_test, test_base, test_single_opencv, test_live_opencv.            *)
(* One run of one program is modelled.  The vendor SDK is the environment:  *)
(* every return value of an SDK call is chosen nondeterministically.  Each  *)
(* action is one SDK call of main() together with the branch that follows   *)
(* it.  The variables lastCall .. resolutionOk observe the SDK interface.   *)
(***************************************************************************)
EXTENDS Integers, Sequences, FiniteSets, TLC

VARIABLES
    prog,         \* which program runs
    pc,           \* position in main()
    exitCode,     \* "running", the value main returned ("0", "1"), or "crash"
    YMDS,         \* unsigned int YMDS[4] filled by GetQHYCCDSDKVersion
    sVersion,     \* the text SDKVersion() formats and prints
    num,          \* int num
    i,            \* loop index of the for loops of base_test
    found,        \* int found
    ret,          \* int ret
    camhandle,    \* qhyccd_handle *camhandle: "uninit", "null" or "h"
    length,       \* int length
    ImgData,      \* unsigned char *ImgData: "uninit", "null" or "buf"
    bufSize,      \* the size_t handed to malloc, as four 16-bit limbs
    nAlloc,       \* number of malloc calls
    frame_count,  \* int frame_count
    fps,          \* int fps
    nShown,       \* number of cv::imshow calls (each reads ImgData)
    input,        \* char input
    lastCall,     \* name of the last SDK call made
    prevCall,     \* name of the SDK call before it
    lastArg,      \* handle passed to the last SDK call ("none": takes no handle)
    lastOk,       \* whether the last SDK call reported success
    called,       \* set of the SDK calls made so far
    nClose,       \* number of CloseQHYCCD calls
    nRelease,     \* number of ReleaseQHYCCDResource calls
    resourceOk,   \* InitQHYCCDResource has returned QHYCCD_SUCCESS
    resolutionOk  \* SetQHYCCDResolution has returned QHYCCD_SUCCESS

ctl  == <<pc, exitCode>>
ver  == <<YMDS, sVersion>>
scan == <<num, i, found>>
buf  == <<length, ImgData, bufSize, nAlloc>>
loop == <<frame_count, fps, nShown, input>>
sdk  == <<lastCall, prevCall, lastArg, lastOk, called, nClose, nRelease,
         resourceOk, resolutionOk>>
vars == <<prog, ctl, ver, scan, ret, camhandle, buf, loop, sdk>>

-----------------------------------------------------------------------------
(* Bounds of the model *)

\* largest camera count ScanQHYCCD reports
MaxNum == 2
\* largest buffer length GetQHYCCDMemLength reports
MaxLen == 2
\* the SDK delivers at most this many frames in a run
MaxFrames == 3
\* SDK version years run from MinYear to MaxYear
MinYear == 24
MaxYear == 24
\* SDK version subday runs from 0 to MaxSubday
MaxSubday == 1

\* number of rounds of the cooler loop of base_test
CoolerRounds == 4
Programs == {"base_test", "test_base", "test_single_opencv", "test_live_opencv"}

\* Return codes: the success sentinel, the error sentinel, any other code.
QHYCCD_SUCCESS == "QHYCCD_SUCCESS"
QHYCCD_ERROR   == "QHYCCD_ERROR"
RetVals == {QHYCCD_SUCCESS, QHYCCD_ERROR, "OTHER"}

\* ScanQHYCCD: a count, or the error code read as an int
ScanResults == -1 .. MaxNum
\* GetQHYCCDMemLength: a length, or the error code read as an int
MemLengths == -1 .. MaxLen
\* OpenQHYCCD: NULL or a handle
Handles == {"null", "h"}
\* std::cin >> input
Inputs == {"q", "Q", "c"}

Months  == 1 .. 12
Days    == 1 .. 31
Years   == MinYear .. MaxYear
Subdays == 0 .. MaxSubday

-----------------------------------------------------------------------------
(* printf("%d") and the formats of SDKVersion *)

Digit == <<"0", "1", "2", "3", "4", "5", "6", "7", "8", "9">>

\* "%d" of a non-negative value: its decimal digits, no padding
RECURSIVE Dec(_)
Dec(n) == IF n < 10 THEN <<Digit[n + 1]>> ELSE Dec(n \div 10) \o <<Digit[(n % 10) + 1]>>

\* sprintf of SDKVersion, without the trailing newline
SDKVersionFormat(y, m, d, s) ==
    IF m < 10 /\ d < 10
    THEN <<"V", "2", "0">> \o Dec(y) \o <<"0">> \o Dec(m) \o <<"0">> \o Dec(d) \o <<"_">> \o Dec(s)
    ELSE IF m < 10 /\ d > 10
    THEN <<"V", "2", "0">> \o Dec(y) \o <<"0">> \o Dec(m) \o Dec(d) \o <<"_">> \o Dec(s)
    ELSE IF m > 10 /\ d < 10
    THEN <<"V", "2", "0">> \o Dec(y) \o Dec(m) \o <<"0">> \o Dec(d) \o <<"_">> \o Dec(s)
    ELSE <<"V", "2", "0">> \o Dec(y) \o Dec(m) \o Dec(d) \o <<"_">> \o Dec(s)

-----------------------------------------------------------------------------
(* malloc(length): int -> size_t, 64 bits as four 16-bit limbs, low first *)

SizeT(n) ==
    << n % 65536,
       (n \div 65536) % 65536,
       IF n < 0 THEN 65535 ELSE 0,
       IF n < 0 THEN 65535 ELSE 0 >>

\* malloc cannot serve a request of 2^32 bytes or more of a sign-extended
\* negative length; any other request is served
Malloc(n) == IF SizeT(n)[3] # 0 \/ SizeT(n)[4] # 0 THEN "null" ELSE "buf"

-----------------------------------------------------------------------------
(* The SDK interface *)

\* One SDK call: its name, the handle it is given, whether it reported success
SdkCall(name, arg, ok) ==
    /\ lastCall' = name
    /\ prevCall' = lastCall
    /\ lastArg' = arg
    /\ lastOk' = ok
    /\ called' = called \cup {name}
    /\ nClose' = IF name = "CloseQHYCCD" THEN nClose + 1 ELSE nClose
    /\ nRelease' = IF name = "ReleaseQHYCCDResource" THEN nRelease + 1 ELSE nRelease
    /\ resourceOk' = IF name = "InitQHYCCDResource" THEN ok ELSE resourceOk
    /\ resolutionOk' = IF name = "SetQHYCCDResolution" THEN ok ELSE resolutionOk

\* return from main
Exit(code) == pc' = "done" /\ exitCode' = code

Goto(l) == pc' = l /\ exitCode' = exitCode

\* the run is killed by a fault
Crash == pc' = "done" /\ exitCode' = "crash"

Init ==
    /\ prog \in Programs
    /\ pc = IF prog \in {"base_test", "test_base"} THEN "sdkversion" ELSE "initres"
    /\ exitCode = "running"
    /\ YMDS = <<>>
    /\ sVersion = <<>>
    /\ num = IF prog = "test_base" THEN "uninit" ELSE 0
    /\ i = 0
    /\ found = 0
    /\ ret = "uninit"
    /\ camhandle = "uninit"
    /\ length = "uninit"
    /\ ImgData = "uninit"
    /\ bufSize = <<>>
    /\ nAlloc = 0
    /\ frame_count = 0
    /\ fps = 0
    /\ nShown = 0
    /\ input = "uninit"
    /\ lastCall = "none"
    /\ prevCall = "none"
    /\ lastArg = "none"
    /\ lastOk = TRUE
    /\ called = {}
    /\ nClose = 0
    /\ nRelease = 0
    /\ resourceOk = FALSE
    /\ resolutionOk = FALSE

-----------------------------------------------------------------------------
(* base_test/main.cpp *)

\* SDKVersion(): GetQHYCCDSDKVersion, then the formatted text goes to stderr
BT_SDKVersion ==
    /\ prog = "base_test" /\ pc = "sdkversion"
    /\ \E y \in Years, m \in Months, d \in Days, s \in Subdays :
          /\ YMDS' = <<y, m, d, s>>
          /\ sVersion' = SDKVersionFormat(y, m, d, s)
    /\ SdkCall("GetQHYCCDSDKVersion", "none", TRUE)
    /\ Goto("initres")
    /\ UNCHANGED <<prog, scan, ret, camhandle, buf, loop>>

\* the label failure: print and return 1
BT_Failure == Exit("1")

BT_InitResource ==
    /\ prog = "base_test" /\ pc = "initres"
    /\ \E r \in RetVals :
          /\ ret' = r
          /\ SdkCall("InitQHYCCDResource", "none", r = QHYCCD_SUCCESS)
    /\ Goto("enable")
    /\ UNCHANGED <<prog, ver, scan, camhandle, buf, loop>>

BT_EnableMessage ==
    /\ prog = "base_test" /\ pc = "enable"
    /\ SdkCall("EnableQHYCCDMessage", "none", TRUE)
    /\ IF ret = QHYCCD_SUCCESS THEN Goto("scan") ELSE BT_Failure
    /\ UNCHANGED <<prog, ver, scan, ret, camhandle, buf, loop>>

BT_Scan ==
    /\ prog = "base_test" /\ pc = "scan"
    /\ \E n \in ScanResults :
          /\ num' = n
          /\ IF n > 0 THEN Goto("getid") ELSE BT_Failure
    /\ SdkCall("ScanQHYCCD", "none", TRUE)
    /\ UNCHANGED <<prog, ver, i, found, ret, camhandle, buf, loop>>

\* one round of for(i < num): GetQHYCCDId(i, id), break on success
BT_GetId ==
    /\ prog = "base_test" /\ pc = "getid"
    /\ i < num
    /\ \E r \in RetVals :
          /\ ret' = r
          /\ SdkCall("GetQHYCCDId", "none", r = QHYCCD_SUCCESS)
          /\ IF r = QHYCCD_SUCCESS
             THEN found' = 1 /\ i' = i /\ Goto("open")
             ELSE /\ found' = found
                  /\ i' = i + 1
                  /\ Goto(IF i + 1 < num THEN "getid" ELSE "open")
    /\ UNCHANGED <<prog, ver, num, camhandle, buf, loop>>

\* if(found == 1) { camhandle = OpenQHYCCD(id) ... } else goto failure
BT_Open ==
    /\ prog = "base_test" /\ pc = "open"
    /\ IF found = 1
       THEN \E h \in Handles :
               /\ camhandle' = h
               /\ SdkCall("OpenQHYCCD", "none", h # "null")
               /\ IF h # "null" THEN Goto("readmode") ELSE BT_Failure
       ELSE /\ BT_Failure
            /\ UNCHANGED <<camhandle, sdk>>
    /\ UNCHANGED <<prog, ver, scan, ret, buf, loop>>

BT_SetReadMode ==
    /\ prog = "base_test" /\ pc = "readmode"
    /\ \E r \in RetVals : SdkCall("SetQHYCCDReadMode", camhandle, r = QHYCCD_SUCCESS)
    /\ Goto("fwversion")
    /\ UNCHANGED <<prog, ver, scan, ret, camhandle, buf, loop>>

\* FirmWareVersion(camhandle): GetQHYCCDFWVersion and a print
BT_FirmWareVersion ==
    /\ prog = "base_test" /\ pc = "fwversion"
    /\ \E r \in RetVals : SdkCall("GetQHYCCDFWVersion", camhandle, r = QHYCCD_SUCCESS)
    /\ Goto("islive")
    /\ UNCHANGED <<prog, ver, scan, ret, camhandle, buf, loop>>

BT_IsLiveAvailable ==
    /\ prog = "base_test" /\ pc = "islive"
    /\ \E r \in RetVals :
          /\ ret' = r
          /\ SdkCall("IsQHYCCDControlAvailable", camhandle, r = QHYCCD_SUCCESS)
          /\ IF r = QHYCCD_ERROR THEN Goto("release_nolive") ELSE Goto("streammode")
    /\ UNCHANGED <<prog, ver, scan, camhandle, buf, loop>>

\* the camera has no live mode: release the SDK resources and return 1
BT_ReleaseNoLive ==
    /\ prog = "base_test" /\ pc = "release_nolive"
    /\ \E r \in RetVals :
          /\ ret' = r
          /\ SdkCall("ReleaseQHYCCDResource", "none", r = QHYCCD_SUCCESS)
    /\ Exit("1")
    /\ UNCHANGED <<prog, ver, scan, camhandle, buf, loop>>

BT_SetStreamMode ==
    /\ prog = "base_test" /\ pc = "streammode"
    /\ \E r \in RetVals :
          /\ ret' = r
          /\ SdkCall("SetQHYCCDStreamMode", camhandle, r = QHYCCD_SUCCESS)
    /\ Goto("initcam")
    /\ UNCHANGED <<prog, ver, scan, camhandle, buf, loop>>

BT_InitQHYCCD ==
    /\ prog = "base_test" /\ pc = "initcam"
    /\ \E r \in RetVals :
          /\ ret' = r
          /\ SdkCall("InitQHYCCD", camhandle, r = QHYCCD_SUCCESS)
          /\ IF r = QHYCCD_SUCCESS THEN Goto("istransferbit") ELSE BT_Failure
    /\ UNCHANGED <<prog, ver, scan, camhandle, buf, loop>>

BT_IsTransferBit ==
    /\ prog = "base_test" /\ pc = "istransferbit"
    /\ \E r \in RetVals :
          /\ ret' = r
          /\ SdkCall("IsQHYCCDControlAvailable", camhandle, r = QHYCCD_SUCCESS)
          /\ IF r = QHYCCD_SUCCESS THEN Goto("bitsmode1") ELSE Goto("bitsmode")
    /\ UNCHANGED <<prog, ver, scan, camhandle, buf, loop>>

\* inside if(CONTROL_TRANSFERBIT available): a failure ends in getchar(); return 1
BT_SetBitsMode1 ==
    /\ prog = "base_test" /\ pc = "bitsmode1"
    /\ \E r \in RetVals :
          /\ ret' = r
          /\ SdkCall("SetQHYCCDBitsMode", camhandle, r = QHYCCD_SUCCESS)
          /\ IF r # QHYCCD_SUCCESS THEN Exit("1") ELSE Goto("bitsmode")
    /\ UNCHANGED <<prog, ver, scan, camhandle, buf, loop>>

BT_SetBitsMode ==
    /\ prog = "base_test" /\ pc = "bitsmode"
    /\ \E r \in RetVals :
          /\ ret' = r
          /\ SdkCall("SetQHYCCDBitsMode", camhandle, r = QHYCCD_SUCCESS)
    /\ Goto("chipinfo")
    /\ UNCHANGED <<prog, ver, scan, camhandle, buf, loop>>

BT_GetChipInfo ==
    /\ prog = "base_test" /\ pc = "chipinfo"
    /\ \E r \in RetVals :
          /\ ret' = r
          /\ SdkCall("GetQHYCCDChipInfo", camhandle, r = QHYCCD_SUCCESS)
          /\ IF r = QHYCCD_SUCCESS THEN Goto("resolution") ELSE BT_Failure
    /\ UNCHANGED <<prog, ver, scan, camhandle, buf, loop>>

BT_SetResolution ==
    /\ prog = "base_test" /\ pc = "resolution"
    /\ \E r \in RetVals :
          /\ ret' = r
          /\ SdkCall("SetQHYCCDResolution", camhandle, r = QHYCCD_SUCCESS)
          /\ IF r = QHYCCD_SUCCESS THEN Goto("memlength") ELSE BT_Failure
    /\ UNCHANGED <<prog, ver, scan, camhandle, buf, loop>>

\* length = GetQHYCCDMemLength; if(length > 0) malloc and memset, else failure
BT_GetMemLength ==
    /\ prog = "base_test" /\ pc = "memlength"
    /\ \E l \in MemLengths :
          /\ length' = l
          /\ SdkCall("GetQHYCCDMemLength", camhandle, l > 0)
          /\ IF l > 0
             THEN /\ ImgData' = Malloc(l)
                  /\ bufSize' = SizeT(l)
                  /\ nAlloc' = nAlloc + 1
                  /\ Goto("enable2")
             ELSE /\ UNCHANGED <<ImgData, bufSize, nAlloc>>
                  /\ BT_Failure
    /\ UNCHANGED <<prog, ver, scan, ret, camhandle, loop>>

\* EnableQHYCCDMessage(true); ret = QHYCCD_ERROR; the cooler loop starts at 0
BT_EnableMessage2 ==
    /\ prog = "base_test" /\ pc = "enable2"
    /\ SdkCall("EnableQHYCCDMessage", "none", TRUE)
    /\ ret' = QHYCCD_ERROR
    /\ i' = 0
    /\ Goto("cooler_set")
    /\ UNCHANGED <<prog, ver, num, found, camhandle, buf, loop>>

\* for(i < 4): SetQHYCCDParam(CONTROL_COOLER)
BT_CoolerSet ==
    /\ prog = "base_test" /\ pc = "cooler_set"
    /\ i < CoolerRounds
    /\ \E r \in RetVals : SdkCall("SetQHYCCDParam", camhandle, r = QHYCCD_SUCCESS)
    /\ Goto("cooler_temp")
    /\ UNCHANGED <<prog, ver, scan, ret, camhandle, buf, loop>>

\* GetQHYCCDParam(CONTROL_CURTEMP): a reading, not a status
BT_CoolerTemp ==
    /\ prog = "base_test" /\ pc = "cooler_temp"
    /\ SdkCall("GetQHYCCDParam", camhandle, TRUE)
    /\ Goto("cooler_pwm")
    /\ UNCHANGED <<prog, ver, scan, ret, camhandle, buf, loop>>

\* GetQHYCCDParam(CONTROL_CURPWM), then i++ and the loop test
BT_CoolerPwm ==
    /\ prog = "base_test" /\ pc = "cooler_pwm"
    /\ SdkCall("GetQHYCCDParam", camhandle, TRUE)
    /\ i' = i + 1
    /\ Goto(IF i + 1 < CoolerRounds THEN "cooler_set" ELSE "stoplive")
    /\ UNCHANGED <<prog, ver, num, found, ret, camhandle, buf, loop>>

\* if(camhandle) { StopQHYCCDLive(camhandle); ...
BT_StopLive ==
    /\ prog = "base_test" /\ pc = "stoplive"
    /\ IF camhandle # "null"
       THEN /\ \E r \in RetVals : SdkCall("StopQHYCCDLive", camhandle, r = QHYCCD_SUCCESS)
            /\ Goto("close")
       ELSE /\ UNCHANGED sdk
            /\ Goto("release")
    /\ UNCHANGED <<prog, ver, scan, ret, camhandle, buf, loop>>

BT_Close ==
    /\ prog = "base_test" /\ pc = "close"
    /\ \E r \in RetVals :
          /\ ret' = r
          /\ SdkCall("CloseQHYCCD", camhandle, r = QHYCCD_SUCCESS)
          /\ IF r = QHYCCD_SUCCESS THEN Goto("release") ELSE BT_Failure
    /\ UNCHANGED <<prog, ver, scan, camhandle, buf, loop>>

BT_Release ==
    /\ prog = "base_test" /\ pc = "release"
    /\ \E r \in RetVals :
          /\ ret' = r
          /\ SdkCall("ReleaseQHYCCDResource", "none", r = QHYCCD_SUCCESS)
          /\ IF r = QHYCCD_SUCCESS THEN Exit("0") ELSE BT_Failure
    /\ UNCHANGED <<prog, ver, scan, camhandle, buf, loop>>

BaseTest ==
    \/ BT_SDKVersion \/ BT_InitResource \/ BT_EnableMessage \/ BT_Scan
    \/ BT_GetId \/ BT_Open \/ BT_SetReadMode \/ BT_FirmWareVersion
    \/ BT_IsLiveAvailable \/ BT_ReleaseNoLive \/ BT_SetStreamMode
    \/ BT_InitQHYCCD \/ BT_IsTransferBit \/ BT_SetBitsMode1 \/ BT_SetBitsMode
    \/ BT_GetChipInfo \/ BT_SetResolution \/ BT_GetMemLength
    \/ BT_EnableMessage2 \/ BT_CoolerSet \/ BT_CoolerTemp \/ BT_CoolerPwm
    \/ BT_StopLive \/ BT_Close \/ BT_Release

-----------------------------------------------------------------------------
(* What test_base, test_single_opencv and test_live_opencv have in common:  *)
(* an SDK call whose status is not looked at.                               *)

\* at label at the program calls name (with the handle when withHandle) and goes
\* on to label to whatever is returned; stores: the status is assigned to ret
Unchecked(at, to, name, withHandle, stores) ==
    /\ pc = at
    /\ \E r \in RetVals :
          /\ SdkCall(name, IF withHandle THEN camhandle ELSE "none", r = QHYCCD_SUCCESS)
          /\ ret' = IF stores THEN r ELSE ret
    /\ Goto(to)
    /\ UNCHANGED <<prog, ver, scan, camhandle, buf, loop>>

\* EnableQHYCCDMessage(true)
EnableMessage ==
    /\ pc = "enable"
    /\ SdkCall("EnableQHYCCDMessage", "none", TRUE)
    /\ Goto("scan")
    /\ UNCHANGED <<prog, ver, scan, ret, camhandle, buf, loop>>

\* num = ScanQHYCCD(); if(num == 0) return 1
Scan ==
    /\ pc = "scan"
    /\ \E n \in ScanResults :
          /\ num' = n
          /\ IF n = 0 THEN Exit("1") ELSE Goto("getid")
    /\ SdkCall("ScanQHYCCD", "none", TRUE)
    /\ UNCHANGED <<prog, ver, i, found, ret, camhandle, buf, loop>>

\* GetQHYCCDId(0, id); printf("... %s", id): the status is not looked at, so
\* after a failure id is printed uninitialised; reading it is undefined: the
\* run faults there or goes on with whatever bytes id holds
GetId(stores) ==
    /\ pc = "getid"
    /\ \E r \in RetVals :
          /\ SdkCall("GetQHYCCDId", "none", r = QHYCCD_SUCCESS)
          /\ ret' = IF stores THEN r ELSE ret
          /\ \/ Goto("open")
             \/ r # QHYCCD_SUCCESS /\ Crash
    /\ UNCHANGED <<prog, ver, scan, camhandle, buf, loop>>

\* camhandle = OpenQHYCCD(id), the result is not looked at
Open(to) ==
    /\ pc = "open"
    /\ \E h \in Handles :
          /\ camhandle' = h
          /\ SdkCall("OpenQHYCCD", "none", h # "null")
    /\ Goto(to)
    /\ UNCHANGED <<prog, ver, scan, ret, buf, loop>>

\* ret = SetQHYCCDResolution(camhandle, 0, 0, w, h); if(ret != QHYCCD_SUCCESS)
\* return 1.  w and h are uninitialised when GetQHYCCDChipInfo failed; they
\* only reach the SDK, whose answer is any of RetVals in every case.
SetResolution ==
    /\ pc = "resolution"
    /\ \E r \in RetVals :
          /\ ret' = r
          /\ SdkCall("SetQHYCCDResolution", camhandle, r = QHYCCD_SUCCESS)
          /\ IF r = QHYCCD_SUCCESS THEN Goto("memlength") ELSE Exit("1")
    /\ UNCHANGED <<prog, ver, scan, camhandle, buf, loop>>

\* int length = GetQHYCCDMemLength(camhandle); ImgData = malloc(length);
\* memset(ImgData, 0, length).  memset through a null pointer is undefined:
\* the run crashes there or goes on.
GetMemLength(to) ==
    /\ pc = "memlength"
    /\ \E l \in MemLengths :
          /\ length' = l
          /\ SdkCall("GetQHYCCDMemLength", camhandle, l > 0)
          /\ ImgData' = Malloc(l)
          /\ bufSize' = SizeT(l)
          /\ nAlloc' = nAlloc + 1
          /\ \/ Goto(to)
             \/ Malloc(l) = "null" /\ Crash
    /\ UNCHANGED <<prog, ver, scan, ret, camhandle, loop>>

\* GetFrame with the test of ret left out: the buffer is shown after every fetch
GetFrame_ShowAlways(name, to) ==
    /\ pc = "fetch"
    /\ \E r \in (IF frame_count < MaxFrames THEN RetVals ELSE RetVals \ {QHYCCD_SUCCESS}) :
          /\ ret' = r
          /\ SdkCall(name, camhandle, r = QHYCCD_SUCCESS)
          /\ frame_count' = IF frame_count < MaxFrames THEN frame_count + 1 ELSE frame_count
          /\ nShown' = IF nShown < MaxFrames THEN nShown + 1 ELSE nShown
          /\ \E elapsed \in BOOLEAN : fps' = IF elapsed \/ fps >= MaxFrames THEN 0 ELSE fps + 1
    /\ Goto(to)
    /\ UNCHANGED <<prog, ver, scan, camhandle, buf, input>>

\* ret = Get...Frame(camhandle, ..., ImgData); if(ret == QHYCCD_SUCCESS) the
\* frame is counted, wrapped in a cv::Mat and shown, fps is counted and reset
\* when five seconds have passed; then cv::waitKey(10) and the next round.
GetFrame(name, to) ==
    /\ pc = "fetch"
    /\ \E r \in (IF frame_count < MaxFrames THEN RetVals ELSE RetVals \ {QHYCCD_SUCCESS}) :
          /\ ret' = r
          /\ SdkCall(name, camhandle, r = QHYCCD_SUCCESS)
          /\ IF r = QHYCCD_SUCCESS
             THEN /\ frame_count' = frame_count + 1
                  /\ nShown' = nShown + 1
                  /\ \E elapsed \in BOOLEAN : fps' = IF elapsed THEN 0 ELSE fps + 1
             ELSE UNCHANGED <<frame_count, nShown, fps>>
    /\ Goto(to)
    /\ UNCHANGED <<prog, ver, scan, camhandle, buf, input>>

-----------------------------------------------------------------------------
(* test_base/main.cpp *)

\* GetQHYCCDSDKVersion and printf("%d.%d.%d_%d"); YMDS is not read again
TB_SDKVersion ==
    /\ prog = "test_base" /\ pc = "sdkversion"
    /\ SdkCall("GetQHYCCDSDKVersion", "none", TRUE)
    /\ Goto("initres")
    /\ UNCHANGED <<prog, ver, scan, ret, camhandle, buf, loop>>

TB_InitResource ==
    /\ prog = "test_base"
    /\ Unchecked("initres", "enable", "InitQHYCCDResource", FALSE, FALSE)
TB_EnableMessage ==
    /\ prog = "test_base"
    /\ EnableMessage
TB_Scan ==
    /\ prog = "test_base"
    /\ Scan
TB_GetId ==
    /\ prog = "test_base"
    /\ GetId(FALSE)
TB_Open ==
    /\ prog = "test_base"
    /\ Open("fwversion")
TB_FWVersion ==
    /\ prog = "test_base"
    /\ Unchecked("fwversion", "readmode", "GetQHYCCDFWVersion", TRUE, FALSE)
\* TB_SetReadMode with InitQHYCCD called in the place of SetQHYCCDReadMode
TB_SetReadMode_InitFirst ==
    /\ prog = "test_base"
    /\ Unchecked("readmode", "streammode", "InitQHYCCD", TRUE, FALSE)

TB_SetReadMode ==
    /\ prog = "test_base"
    /\ Unchecked("readmode", "streammode", "SetQHYCCDReadMode", TRUE, FALSE)
TB_SetStreamMode ==
    /\ prog = "test_base"
    /\ Unchecked("streammode", "initcam", "SetQHYCCDStreamMode", TRUE, FALSE)
TB_InitQHYCCD ==
    /\ prog = "test_base"
    /\ Unchecked("initcam", "bitsmode", "InitQHYCCD", TRUE, FALSE)
TB_SetBitsMode ==
    /\ prog = "test_base"
    /\ Unchecked("bitsmode", "chipinfo", "SetQHYCCDBitsMode", TRUE, FALSE)
TB_GetChipInfo ==
    /\ prog = "test_base"
    /\ Unchecked("chipinfo", "resolution", "GetQHYCCDChipInfo", TRUE, FALSE)
TB_SetResolution ==
    /\ prog = "test_base"
    /\ SetResolution
TB_GetMemLength ==
    /\ prog = "test_base"
    /\ GetMemLength("close")
TB_Close ==
    /\ prog = "test_base"
    /\ Unchecked("close", "release", "CloseQHYCCD", TRUE, FALSE)

\* ReleaseQHYCCDResource(); return 0
TB_Release ==
    /\ prog = "test_base" /\ pc = "release"
    /\ \E r \in RetVals : SdkCall("ReleaseQHYCCDResource", "none", r = QHYCCD_SUCCESS)
    /\ Exit("0")
    /\ UNCHANGED <<prog, ver, scan, ret, camhandle, buf, loop>>

TestBase ==
    \/ TB_SDKVersion \/ TB_InitResource \/ TB_EnableMessage \/ TB_Scan
    \/ TB_GetId \/ TB_Open \/ TB_FWVersion \/ TB_SetReadMode
    \/ TB_SetStreamMode \/ TB_InitQHYCCD \/ TB_SetBitsMode \/ TB_GetChipInfo
    \/ TB_SetResolution \/ TB_GetMemLength \/ TB_Close \/ TB_Release

-----------------------------------------------------------------------------
(* test_single_opencv/main.cpp *)

SG_InitResource ==
    /\ prog = "test_single_opencv"
    /\ Unchecked("initres", "enable", "InitQHYCCDResource", FALSE, TRUE)
SG_EnableMessage ==
    /\ prog = "test_single_opencv"
    /\ EnableMessage
SG_Scan ==
    /\ prog = "test_single_opencv"
    /\ Scan
SG_GetId ==
    /\ prog = "test_single_opencv"
    /\ GetId(TRUE)
SG_Open ==
    /\ prog = "test_single_opencv"
    /\ Open("readmode")
SG_SetReadMode ==
    /\ prog = "test_single_opencv"
    /\ Unchecked("readmode", "streammode", "SetQHYCCDReadMode", TRUE, FALSE)
SG_SetStreamMode ==
    /\ prog = "test_single_opencv"
    /\ Unchecked("streammode", "initcam", "SetQHYCCDStreamMode", TRUE, FALSE)
SG_InitQHYCCD ==
    /\ prog = "test_single_opencv"
    /\ Unchecked("initcam", "bitsmode", "InitQHYCCD", TRUE, FALSE)
SG_SetBitsMode ==
    /\ prog = "test_single_opencv"
    /\ Unchecked("bitsmode", "chipinfo", "SetQHYCCDBitsMode", TRUE, TRUE)
SG_GetChipInfo ==
    /\ prog = "test_single_opencv"
    /\ Unchecked("chipinfo", "resolution", "GetQHYCCDChipInfo", TRUE, TRUE)
SG_SetResolution ==
    /\ prog = "test_single_opencv"
    /\ SetResolution
SG_GetMemLength ==
    /\ prog = "test_single_opencv"
    /\ GetMemLength("exposure")
SG_SetExposure ==
    /\ prog = "test_single_opencv"
    /\ Unchecked("exposure", "readinput", "SetQHYCCDParam", TRUE, FALSE)

\* std::cin >> input; 'q' or 'Q' breaks out of while(true)
SG_ReadInput ==
    /\ prog = "test_single_opencv" /\ pc = "readinput"
    /\ \E c \in Inputs :
          /\ input' = c
          /\ Goto(IF c = "q" \/ c = "Q" THEN "close" ELSE "expose")
    /\ UNCHANGED <<prog, ver, scan, ret, camhandle, buf, frame_count, fps, nShown, sdk>>

\* ExpQHYCCDSingleFrame(camhandle); sleep 300 ms
SG_Expose ==
    /\ prog = "test_single_opencv"
    /\ Unchecked("expose", "fetch", "ExpQHYCCDSingleFrame", TRUE, FALSE)
SG_GetSingleFrame ==
    /\ prog = "test_single_opencv"
    /\ GetFrame("GetQHYCCDSingleFrame", "readinput")
SG_Close ==
    /\ prog = "test_single_opencv"
    /\ Unchecked("close", "release", "CloseQHYCCD", TRUE, FALSE)

\* ReleaseQHYCCDResource(); return 0
SG_Release ==
    /\ prog = "test_single_opencv" /\ pc = "release"
    /\ \E r \in RetVals : SdkCall("ReleaseQHYCCDResource", "none", r = QHYCCD_SUCCESS)
    /\ Exit("0")
    /\ UNCHANGED <<prog, ver, scan, ret, camhandle, buf, loop>>

TestSingle ==
    \/ SG_InitResource \/ SG_EnableMessage \/ SG_Scan \/ SG_GetId \/ SG_Open
    \/ SG_SetReadMode \/ SG_SetStreamMode \/ SG_InitQHYCCD \/ SG_SetBitsMode
    \/ SG_GetChipInfo \/ SG_SetResolution \/ SG_GetMemLength \/ SG_SetExposure
    \/ SG_ReadInput \/ SG_Expose \/ SG_GetSingleFrame \/ SG_Close \/ SG_Release

-----------------------------------------------------------------------------
(* test_live_opencv/main.cpp.  The statements after while(true) cannot be   *)
(* reached: the loop holds no break and no return.                          *)

LV_InitResource ==
    /\ prog = "test_live_opencv"
    /\ Unchecked("initres", "enable", "InitQHYCCDResource", FALSE, TRUE)
LV_EnableMessage ==
    /\ prog = "test_live_opencv"
    /\ EnableMessage
LV_Scan ==
    /\ prog = "test_live_opencv"
    /\ Scan
LV_GetId ==
    /\ prog = "test_live_opencv"
    /\ GetId(TRUE)
LV_Open ==
    /\ prog = "test_live_opencv"
    /\ Open("readmode")
LV_SetReadMode ==
    /\ prog = "test_live_opencv"
    /\ Unchecked("readmode", "streammode", "SetQHYCCDReadMode", TRUE, FALSE)
LV_SetStreamMode ==
    /\ prog = "test_live_opencv"
    /\ Unchecked("streammode", "initcam", "SetQHYCCDStreamMode", TRUE, FALSE)
LV_InitQHYCCD ==
    /\ prog = "test_live_opencv"
    /\ Unchecked("initcam", "bitsmode", "InitQHYCCD", TRUE, FALSE)
LV_SetBitsMode ==
    /\ prog = "test_live_opencv"
    /\ Unchecked("bitsmode", "chipinfo", "SetQHYCCDBitsMode", TRUE, TRUE)
LV_GetChipInfo ==
    /\ prog = "test_live_opencv"
    /\ Unchecked("chipinfo", "resolution", "GetQHYCCDChipInfo", TRUE, TRUE)
LV_SetResolution ==
    /\ prog = "test_live_opencv"
    /\ SetResolution
LV_GetMemLength ==
    /\ prog = "test_live_opencv"
    /\ GetMemLength("exposure")
LV_SetExposure ==
    /\ prog = "test_live_opencv"
    /\ Unchecked("exposure", "beginlive", "SetQHYCCDParam", TRUE, FALSE)
LV_BeginLive ==
    /\ prog = "test_live_opencv"
    /\ Unchecked("beginlive", "fetch", "BeginQHYCCDLive", TRUE, FALSE)
\* LV_GetLiveFrame with a break out of while(true) after a failed fetch
LV_GetLiveFrame_Break ==
    /\ prog = "test_live_opencv"
    /\ \/ GetFrame("GetQHYCCDLiveFrame", "fetch")
       \/ /\ pc = "fetch"
          /\ ret' = QHYCCD_ERROR
          /\ SdkCall("GetQHYCCDLiveFrame", camhandle, FALSE)
          /\ Goto("stoplive")
          /\ UNCHANGED <<prog, ver, scan, camhandle, buf, loop>>

LV_GetLiveFrame ==
    /\ prog = "test_live_opencv"
    /\ GetFrame("GetQHYCCDLiveFrame", "fetch")

TestLive ==
    \/ LV_InitResource \/ LV_EnableMessage \/ LV_Scan \/ LV_GetId \/ LV_Open
    \/ LV_SetReadMode \/ LV_SetStreamMode \/ LV_InitQHYCCD \/ LV_SetBitsMode
    \/ LV_GetChipInfo \/ LV_SetResolution \/ LV_GetMemLength \/ LV_SetExposure
    \/ LV_BeginLive \/ LV_GetLiveFrame

-----------------------------------------------------------------------------
Next == BaseTest \/ TestBase \/ TestSingle \/ TestLive

Spec == Init /\ [][Next]_vars

-----------------------------------------------------------------------------
(* Vocabulary of the properties *)

\* SDK calls that take the camera handle
HandleCalls ==
    {"GetQHYCCDFWVersion", "SetQHYCCDReadMode", "IsQHYCCDControlAvailable",
     "SetQHYCCDStreamMode", "InitQHYCCD", "SetQHYCCDBitsMode", "GetQHYCCDChipInfo",
     "SetQHYCCDResolution", "GetQHYCCDMemLength", "SetQHYCCDParam", "GetQHYCCDParam",
     "BeginQHYCCDLive", "GetQHYCCDLiveFrame", "ExpQHYCCDSingleFrame",
     "GetQHYCCDSingleFrame", "StopQHYCCDLive", "CloseQHYCCD"}

\* SDK calls that report a status
StatusCalls ==
    {"InitQHYCCDResource", "GetQHYCCDId", "OpenQHYCCD", "SetQHYCCDReadMode",
     "SetQHYCCDStreamMode", "InitQHYCCD", "SetQHYCCDBitsMode", "GetQHYCCDChipInfo",
     "SetQHYCCDResolution", "GetQHYCCDMemLength", "CloseQHYCCD",
     "ReleaseQHYCCDResource"}

\* discovery, configuration and acquisition calls: all but messages, version
\* query and teardown
DependentCalls ==
    (HandleCalls \ {"StopQHYCCDLive", "CloseQHYCCD"})
        \cup {"ScanQHYCCD", "GetQHYCCDId", "OpenQHYCCD"}

FetchCalls == {"GetQHYCCDLiveFrame", "GetQHYCCDSingleFrame"}

\* the phase of a call in init -> scan -> id -> open -> modes -> camera init ->
\* configuration -> acquisition -> close -> release; 0: a call of no phase
PhaseOf(c) ==
    CASE c = "InitQHYCCDResource" -> 1
      [] c = "ScanQHYCCD" -> 2
      [] c = "GetQHYCCDId" -> 3
      [] c = "OpenQHYCCD" -> 4
      [] c \in {"SetQHYCCDReadMode", "SetQHYCCDStreamMode"} -> 5
      [] c = "InitQHYCCD" -> 6
      [] c \in {"SetQHYCCDBitsMode", "GetQHYCCDChipInfo", "SetQHYCCDResolution",
                "GetQHYCCDMemLength"} -> 7
      [] c \in {"BeginQHYCCDLive", "GetQHYCCDLiveFrame", "ExpQHYCCDSingleFrame",
                "GetQHYCCDSingleFrame", "StopQHYCCDLive"} -> 8
      [] c = "CloseQHYCCD" -> 9
      [] c = "ReleaseQHYCCDResource" -> 10
      [] OTHER -> 0

\* main has returned
Returned == exitCode \in {"0", "1"}

\* two digits, zero-padded
Pad2(n) == IF n < 10 THEN <<"0">> \o Dec(n) ELSE Dec(n)

-----------------------------------------------------------------------------
(* C1: a run that opened a handle calls CloseQHYCCD on it exactly once      *)
(* before main returns, on every exit path.  Refuted by the code.           *)
C1_ClosedExactlyOnce ==
    /\ nClose <= 1
    /\ (Returned /\ camhandle = "h") => nClose = 1

(* C2: no SDK call that takes the handle is made after CloseQHYCCD or       *)
(* ReleaseQHYCCDResource, nor with a handle that was never opened.          *)
(* Refuted by the code.                                                     *)
C2_HandleUsedOnlyWhileOpen ==
    lastCall \in HandleCalls =>
        /\ lastArg = "h"
        /\ nRelease = 0
        /\ nClose = IF lastCall = "CloseQHYCCD" THEN 1 ELSE 0

(* C3: in test_single_opencv and test_live_opencv ImgData is shown only in  *)
(* the round whose fetch returned QHYCCD_SUCCESS; a failed fetch shows      *)
(* nothing and leaves frame_count and fps as they were.                     *)
C3_ShownOnlyAfterSuccessfulFetch ==
    [][ /\ (nShown' # nShown =>
               /\ pc = "fetch" /\ lastCall' \in FetchCalls /\ lastOk'
               /\ nShown' = nShown + 1)
        /\ (pc = "fetch" /\ ~lastOk' =>
               nShown' = nShown /\ frame_count' = frame_count /\ fps' = fps)
      ]_vars

C3_Witness ==
    /\ prog \in {"test_single_opencv", "test_live_opencv"}
    /\ lastCall \in FetchCalls /\ ~lastOk
    /\ frame_count >= 1 /\ nShown = frame_count

(* C4: after a status-reporting SDK call fails, the program makes no        *)
(* further discovery, configuration or acquisition call: the next           *)
(* different call is at most a message switch or teardown.  Refuted.        *)
C4_FailureStopsConfiguration ==
    [][ (lastCall \in StatusCalls /\ ~lastOk /\ lastCall' # lastCall)
            => lastCall' \notin DependentCalls ]_vars

(* C5: the SDK calls of a run follow the phase order: no call of an earlier *)
(* phase is made once a call of a later phase has been made.                *)
C5_PhaseOrder ==
    [][ PhaseOf(lastCall') # 0 =>
            \A c \in called : PhaseOf(c) <= PhaseOf(lastCall') ]_vars

C5_Witness ==
    /\ prog = "test_single_opencv" /\ exitCode = "0"
    /\ frame_count >= 1 /\ nClose = 1 /\ nRelease = 1

(* C6: a run whose InitQHYCCDResource succeeded calls                       *)
(* ReleaseQHYCCDResource exactly once before main returns, error exits      *)
(* included.  Refuted by the code.                                          *)
C6_ReleasedExactlyOnce ==
    /\ nRelease <= 1
    /\ (Returned /\ resourceOk) => nRelease = 1

(* C7: the frame buffer is allocated at most once, with exactly the size    *)
(* GetQHYCCDMemLength returned, after SetQHYCCDResolution succeeded, and    *)
(* every frame fetch has that buffer to write to.  Refuted by the code.     *)
C7_OneBufferOfReturnedSize ==
    /\ nAlloc <= 1
    /\ nAlloc = 1 =>
          /\ resolutionOk
          /\ "GetQHYCCDMemLength" \in called
          /\ ImgData = "buf"
          /\ length >= 0
          /\ bufSize = <<length % 65536, (length \div 65536) % 65536, 0, 0>>
    /\ lastCall \in FetchCalls => nAlloc = 1 /\ ImgData = "buf"

(* C8: GetQHYCCDLiveFrame and StopQHYCCDLive are called only after          *)
(* BeginQHYCCDLive; every GetQHYCCDSingleFrame directly follows an          *)
(* ExpQHYCCDSingleFrame; no exposure is started once 'q' or 'Q' was read.   *)
(* Refuted by the code.                                                     *)
C8_AcquisitionBracketed ==
    /\ lastCall \in {"GetQHYCCDLiveFrame", "StopQHYCCDLive"} => "BeginQHYCCDLive" \in called
    /\ lastCall = "GetQHYCCDSingleFrame" => prevCall = "ExpQHYCCDSingleFrame"
    /\ input \in {"q", "Q"} => lastCall # "ExpQHYCCDSingleFrame"

(* C9: test_live_opencv never leaves its loop: once BeginQHYCCDLive has     *)
(* been called the program stays at the frame fetch, never calls            *)
(* StopQHYCCDLive, CloseQHYCCD or ReleaseQHYCCDResource, and main never     *)
(* returns 0.                                                               *)
C9_LiveLoopNeverLeft ==
    prog = "test_live_opencv" =>
        /\ exitCode # "0"
        /\ "BeginQHYCCDLive" \in called =>
              /\ pc = "fetch" /\ exitCode = "running"
              /\ "StopQHYCCDLive" \notin called
              /\ nClose = 0 /\ nRelease = 0

C9_Witness ==
    /\ prog = "test_live_opencv" /\ "BeginQHYCCDLive" \in called
    /\ lastCall = "GetQHYCCDLiveFrame" /\ ~lastOk
    /\ frame_count >= 2

(* C10: SDKVersion prints V20, the year, the month and the day as two       *)
(* digits each, an underscore and the subday.  Refuted by the code.         *)
C10_VersionTwoDigitFields ==
    YMDS # <<>> =>
        sVersion = <<"V", "2", "0">> \o Dec(YMDS[1]) \o Pad2(YMDS[2]) \o Pad2(YMDS[3])
                       \o <<"_">> \o Dec(YMDS[4])

====
